---- MODULE Spec2Model ----
(***************************************************************************)
(* A verification model of the pylumos / pyskylumos simulation pipeline:   *)
(*   OpticalConjugator.get_azimuth_altitude   (lens projection)            *)
(*   Pan.simulate_sky                         (Brewster regression, mask)  *)
(*   MicroPolarizer.get_intensity_on_pixel    (orientation mosaic, defect) *)
(*   SensorChip.get_bits_intensity            (noise, scaling, clipping)   *)
(*                                                                         *)
(* Every operation is a call-and-return array transform, so each component *)
(* has its own specification: Init draws the constructor arguments and the *)
(* call's inputs from bounded sets, and one action applies the method.     *)
(*                                                                         *)
(* Numbers.  SensorChip is modelled in IEEE binary32 arithmetic, exactly:  *)
(* a finite value is a dyadic rational m * 2^e held with an odd mantissa   *)
(* |m| < 2^24, and every binary32 operation rounds to nearest, ties to     *)
(* even.  The value ranges are chosen so that no intermediate exceeds the  *)
(* checker's integer range.  Angles elsewhere are fixed-point integers.    *)
(***************************************************************************)
EXTENDS Integers, Sequences, FiniteSets, TLC

VARIABLES
    \* ---- SensorChip --------------------------------------------------
    adc_resolution,           \* [bits, isInt]: the value and its Python type
    pixel_saturation_ratio,   \* binary32-representable Python float
    signal_to_noise_ratio,    \* Python float, possibly infinite
    castNonFinite,            \* how this build converts NaN/inf to int64
    intensity_on_pixel,       \* the [T,H,W] input stack
    white_noise,              \* the noisy stack (line 27)
    bits_intensity,           \* the returned stack
    chipPc,                   \* "ready" | "returned" | "TypeError"
    \* ---- OpticalConjugator ------------------------------------------
    lens_conjugation_type,
    number_pixels_vertical,
    number_pixels_horizontal,
    lens_focal_length_micrometers,
    sensor_pixel_size_square_micrometers,
    altitude_min_clip,        \* [given, v]: None or centidegrees
    custom_lens_conjugation,  \* "None" or the name of a caller's hook
    azimuth,                  \* returned [H,W] field, centidegrees
    altitude,                 \* returned [H,W] field, centidegrees or NaN
    lensPc,                   \* "ready" | "returned" | "SystemExit" | "TypeError"
    \* ---- Pan --------------------------------------------------------
    sky_map_alt,              \* self.sky_map.alt.deg, [H,W], centidegrees
    sun_altitude,             \* sun_position.alt per time, centidegrees
    sky_altitude_min_clip,    \* simulate_sky's altitude_min_clip: [given, v]
    angle_between_sun_babinet,   \* per time, radians (1e-5)
    angle_between_sun_brewster,  \* per time, radians (1e-5)
    radiance,                 \* returned [T,H,W] fields: "value" or "nan"
    dop,
    aop,
    panPc,                    \* "ready" | "returned"
    \* ---- MicroPolarizer ---------------------------------------------
    extinction_ratio,         \* thousandths
    tolerance,                \* radians (1e-5)
    wire_grid_orientations_slicing,  \* the dict, as its items() in order
    degree_of_polarization,   \* input [T,H,W], thousandths
    angle_of_polarization,    \* input [T,H,W], radians (1e-5)
    pol_radiance,             \* input [T,H,W], thousandths
    mosaic,                   \* angle_map before the defects (line 45)
    defects,                  \* the [H,W] draw of line 52
    angle_map,                \* angle_map after line 54
    pol_intensity,            \* the returned [T,H,W] intensity, thousandths
    polPc                     \* "ready" | "returned"

chipVars == << adc_resolution, pixel_saturation_ratio, signal_to_noise_ratio,
               castNonFinite, intensity_on_pixel, white_noise, bits_intensity,
               chipPc >>

lensVars == << lens_conjugation_type, number_pixels_vertical,
               number_pixels_horizontal, lens_focal_length_micrometers,
               sensor_pixel_size_square_micrometers, altitude_min_clip,
               custom_lens_conjugation, azimuth, altitude, lensPc >>

panVars == << sky_map_alt, sun_altitude, sky_altitude_min_clip,
              angle_between_sun_babinet, angle_between_sun_brewster,
              radiance, dop, aop, panPc >>

polVars == << extinction_ratio, tolerance, wire_grid_orientations_slicing,
              degree_of_polarization, angle_of_polarization, pol_radiance,
              mosaic, defects, angle_map, pol_intensity, polPc >>

vars == << chipVars, lensVars, panVars, polVars >>

(***************************************************************************)
(* IEEE binary32 / binary64 values                                         *)
(***************************************************************************)
MantissaBits == 24

Fin(m, e) == [k |-> "fin", m |-> m, e |-> e]
NaN == [k |-> "nan", m |-> 0, e |-> 0]
Inf(s) == [k |-> "inf", m |-> s, e |-> 0]

Abs(n) == IF n < 0 THEN -n ELSE n
Sgn(n) == IF n < 0 THEN -1 ELSE IF n = 0 THEN 0 ELSE 1

\* The canonical form of m * 2^e: an odd mantissa (zero is 0 * 2^0).
RECURSIVE Norm(_, _)
Norm(m, e) ==
    IF m = 0 THEN Fin(0, 0)
    ELSE IF m % 2 = 0 THEN Norm(m \div 2, e + 1)
    ELSE Fin(m, e)

\* Number of bits of a > 0.
RECURSIVE BitLen(_)
BitLen(a) == IF a = 0 THEN 0 ELSE 1 + BitLen(a \div 2)

\* a / 2^s rounded to the nearest integer, ties to even (a >= 0, s >= 1).
RoundShift(a, s) ==
    LET q == a \div (2 ^ s)
        r == a % (2 ^ s)
        h == 2 ^ (s - 1)
    IN  IF r > h \/ (r = h /\ q % 2 = 1) THEN q + 1 ELSE q

\* m * 2^e rounded to a binary32 value.
Round24(m, e) ==
    LET a == Abs(m)
        s == BitLen(a) - MantissaBits
    IN  IF s <= 0 THEN Norm(m, e)
        ELSE Norm(Sgn(m) * RoundShift(a, s), e + s)

\* The least s >= 0 with a * 2^s >= lo.
RECURSIVE ShiftUp(_, _)
ShiftUp(a, lo) == IF a >= lo THEN 0 ELSE 1 + ShiftUp(2 * a, lo)

\* a / b (a, b > 0) rounded to 24 significant bits: <<mantissa, exponent>>.
RoundQuot(a, b) ==
    LET s == ShiftUp(a, (2 ^ (MantissaBits - 1)) * b)
        n == a * (2 ^ s)
        q == n \div b
        r == n % b
        up == 2 * r > b \/ (2 * r = b /\ q % 2 = 1)
    IN  << IF up THEN q + 1 ELSE q, -s >>

\* binary32 multiplication.
MulF32(x, y) ==
    IF x.k = "nan" \/ y.k = "nan" THEN NaN
    ELSE IF x.k = "inf" \/ y.k = "inf"
         THEN IF x.m = 0 \/ y.m = 0 THEN NaN ELSE Inf(Sgn(x.m) * Sgn(y.m))
    ELSE Round24(x.m * y.m, x.e + y.e)

\* binary32 division; a zero divisor gives inf or NaN (numpy only warns).
DivF32(x, y) ==
    IF x.k = "nan" \/ y.k = "nan" THEN NaN
    ELSE IF x.k = "inf" THEN (IF y.k = "inf" THEN NaN
                              ELSE Inf(x.m * (IF y.m < 0 THEN -1 ELSE 1)))
    ELSE IF y.k = "inf" THEN Fin(0, 0)
    ELSE IF y.m = 0 THEN (IF x.m = 0 THEN NaN ELSE Inf(Sgn(x.m)))
    ELSE IF x.m = 0 THEN Fin(0, 0)
    ELSE LET qe == RoundQuot(Abs(x.m), Abs(y.m))
         IN  Norm(Sgn(x.m) * Sgn(y.m) * qe[1], x.e - y.e + qe[2])

\* binary64 multiplication and addition: exact on the model's value range
\* (no product or sum of the model needs more than 53 mantissa bits).
MulF64(x, y) ==
    IF x.k = "nan" \/ y.k = "nan" THEN NaN
    ELSE IF x.k = "inf" \/ y.k = "inf"
         THEN IF x.m = 0 \/ y.m = 0 THEN NaN ELSE Inf(Sgn(x.m) * Sgn(y.m))
    ELSE Norm(x.m * y.m, x.e + y.e)

Min2(a, b) == IF a < b THEN a ELSE b

AddF64(x, y) ==
    IF x.k = "nan" \/ y.k = "nan" THEN NaN
    ELSE IF x.k = "inf" THEN (IF y.k = "inf" /\ y.m # x.m THEN NaN ELSE x)
    ELSE IF y.k = "inf" THEN y
    ELSE LET e == Min2(x.e, y.e)
         IN  Norm(x.m * (2 ^ (x.e - e)) + y.m * (2 ^ (y.e - e)), e)

\* x < y for finite values.
LessFin(x, y) ==
    LET e == Min2(x.e, y.e)
    IN  x.m * (2 ^ (x.e - e)) < y.m * (2 ^ (y.e - e))

\* numpy.floor: the integer part of a finite value, as a value.
FloorF(x) ==
    IF x.k # "fin" THEN x
    ELSE IF x.e >= 0 THEN x
    ELSE IF -x.e > MantissaBits THEN (IF x.m < 0 THEN Fin(-1, 0) ELSE Fin(0, 0))
    ELSE Norm(x.m \div (2 ^ (-x.e)), 0)

\* The integer a finite integral value denotes.
IntOf(x) == x.m * (2 ^ x.e)

(***************************************************************************)
(* SensorChip                                                              *)
(***************************************************************************)
Frames == 1 .. 2
Rows == 1 .. 1
Cols == 1 .. 2
Pixels == Frames \X Rows \X Cols

\* Input intensities: NaN (masked) or one of the levels 0, 1, 3, 7, ...
MaxLevelBits == 3
Levels == {0} \cup {2 ^ b - 1 : b \in 2 .. MaxLevelBits}
IntensityValues == {NaN} \cup {Norm(l, 0) : l \in Levels}

AdcBits == {4, 8}
SaturationRatios == {Fin(1, 0), Fin(1, -1)}        \* 1.0 and 0.5
NoiseRatios == {Inf(1), Fin(1, 1)}                 \* SNR = infinity and 2.0
NormalDraws == {Fin(-1, 2), Fin(1, 1)}             \* randn draws -4 and 2
Builds == {"x86_64", "aarch64"}

Count(n) == [k |-> "int", v |-> n]
NanCount == [k |-> "nan", v |-> 0]
Int64Min == [k |-> "int64min", v |-> 0]
NoCount == [k |-> "none", v |-> 0]

\* isnan(intensity_on_pixel)
Mask(stack) == [p \in Pixels |-> stack[p].k = "nan"]

\* nan_to_num(intensity_on_pixel, nan=0)
NanToNum(x) == IF x.k = "nan" THEN Fin(0, 0) ELSE x

\* ((1 / snr) * nan_to_num(x) * randn + nan_to_num(x)).astype(float32):
\* the scalar times the float32 array is float32, the product with the
\* float64 draw and the sum are float64, the cast rounds to float32.
WhiteNoisePixel(x, snr, z) ==
    LET inv == DivF32(Fin(1, 0), snr)
        sum == AddF64(MulF64(MulF32(inv, NanToNum(x)), z), NanToNum(x))
    IN  IF sum.k = "fin" THEN Round24(sum.m, sum.e) ELSE sum

MaxPixelValueMutant(adc) == 2 ^ adc.bits

\* 2 ** adc_resolution - 1
MaxPixelValue(adc) == 2 ^ adc.bits - 1

\* The larger of two values, NaN being ignored (nanmax's reduction step).
NanMax2(x, y) ==
    IF x.k = "nan" THEN y
    ELSE IF y.k = "nan" THEN x
    ELSE IF LessFin(x, y) THEN y ELSE x

RECURSIVE NanMaxOver(_, _)
NanMaxOver(stack, ps) ==
    IF ps = {} THEN NaN
    ELSE LET p == CHOOSE q \in ps : TRUE
         IN  NanMax2(stack[p], NanMaxOver(stack, ps \ {p}))

\* The pixels reduced by axis=(1, 2) for frame t.
FramePixels(t) == {p \in Pixels : p[1] = t}

\* nanmax(intensity_on_pixel, axis=(1, 2), keepdims=True)[t]
MaxIncomingIntensity(stack, t) == NanMaxOver(stack, FramePixels(t))

\* max_pixel_value / (max_incoming_intensity * pixel_saturation_ratio)
Scale(adc, sat, m) == DivF32(Fin(MaxPixelValue(adc), 0), MulF32(m, sat))

\* floor(...).astype(int): a finite value converts exactly; converting NaN
\* or an infinity is undefined in C, and numpy returns what the machine
\* instruction gives: INT64_MIN on x86-64; 0, INT64_MAX, INT64_MIN on
\* aarch64.  INT64_MAX never survives the following minimum.
AsTypeInt(x, build) ==
    IF x.k = "fin" THEN Count(IntOf(x))
    ELSE IF build = "x86_64" THEN Int64Min
    ELSE IF x.k = "nan" THEN Count(0)
    ELSE IF x.m < 0 THEN Int64Min ELSE [k |-> "int64max", v |-> 0]

MinimumMutant(c, maxv) == c

\* minimum(count, max_pixel_value)
Minimum(c, maxv) ==
    IF c.k = "int64min" THEN c
    ELSE IF c.k = "int64max" THEN Count(maxv)
    ELSE IF c.v < maxv THEN c ELSE Count(maxv)

\* minimum(floor(scale * white_noise).astype(int), max_pixel_value), the
\* [T,1,1] scale being broadcast over each frame's pixels.
ClippedCounts(adc, sat, build, stack, noisy) ==
    LET scale == [t \in Frames |->
                    Scale(adc, sat, MaxIncomingIntensity(stack, t))]
    IN  [p \in Pixels |->
           Minimum(AsTypeInt(FloorF(MulF32(scale[p[1]], noisy[p])), build),
                   MaxPixelValue(adc))]

\* bits_intensity[mask] = None on a float64 array: NaN where masked.
RestoreMask(mask, p, c) == IF mask[p] THEN NanCount ELSE c

ChipInit ==
    /\ adc_resolution \in [bits : AdcBits, isInt : BOOLEAN]
    /\ pixel_saturation_ratio \in SaturationRatios
    /\ signal_to_noise_ratio \in NoiseRatios
    /\ castNonFinite \in Builds
    /\ intensity_on_pixel \in [Pixels -> IntensityValues]
    /\ white_noise = [p \in Pixels |-> NaN]
    /\ bits_intensity = [p \in Pixels |-> NoCount]
    /\ chipPc = "ready"

ChipIdle ==
    /\ adc_resolution = [bits |-> 8, isInt |-> FALSE]
    /\ pixel_saturation_ratio = Fin(1, 0)
    /\ signal_to_noise_ratio = Inf(1)
    /\ castNonFinite = "x86_64"
    /\ intensity_on_pixel = [p \in Pixels |-> NaN]
    /\ white_noise = [p \in Pixels |-> NaN]
    /\ bits_intensity = [p \in Pixels |-> NoCount]
    /\ chipPc = "idle"

\* SensorChip.get_bits_intensity.  With a Python int adc_resolution the
\* maximum is an int, the array stays int64, and assigning None into it
\* raises TypeError; with a float it is float64 and None is stored as NaN.
get_bits_intensity ==
    /\ chipPc = "ready"
    /\ \E randn \in [Pixels -> NormalDraws] :
         LET mask == Mask(intensity_on_pixel)
             noisy == [p \in Pixels |->
                         WhiteNoisePixel(intensity_on_pixel[p],
                                         signal_to_noise_ratio, randn[p])]
         IN  /\ white_noise' = noisy
             /\ IF adc_resolution.isInt
                THEN /\ chipPc' = "TypeError"
                     /\ UNCHANGED bits_intensity
                ELSE LET counts == ClippedCounts(adc_resolution,
                                                 pixel_saturation_ratio,
                                                 castNonFinite,
                                                 intensity_on_pixel, noisy)
                     IN  /\ chipPc' = "returned"
                         /\ bits_intensity' =
                              [p \in Pixels |->
                                 RestoreMask(mask, p, counts[p])]
    /\ UNCHANGED << adc_resolution, pixel_saturation_ratio,
                    signal_to_noise_ratio, castNonFinite, intensity_on_pixel >>

(***************************************************************************)
(* SensorChip: properties                                                  *)
(***************************************************************************)
ValidPixels == {p \in Pixels : intensity_on_pixel[p].k # "nan"}
FrameMax(p) == MaxIncomingIntensity(intensity_on_pixel, p[1])
FrameMaxPositive(p) == FrameMax(p).k = "fin" /\ FrameMax(p).m > 0

\* c <= n for a returned count (INT64_MIN is below every n).
CountLeq(c, n) == c.k = "int64min" \/ (c.k = "int" /\ c.v <= n)

\* C2: saturation invariant.  Every valid pixel of the returned stack is
\* <= 2^adc_resolution - 1, for every stack, configuration and noise draw.
C2_Saturation ==
    chipPc = "returned" =>
        \A p \in ValidPixels :
            CountLeq(bits_intensity[p], 2 ^ adc_resolution.bits - 1)

\* C2 witness: a returned valid pixel whose noisy value is above the
\* frame maximum and whose count has been clipped to the maximum.
C2_Witness ==
    /\ chipPc = "returned"
    /\ \E p \in ValidPixels :
         /\ FrameMaxPositive(p)
         /\ white_noise[p].k = "fin"
         /\ LessFin(FrameMax(p), white_noise[p])
         /\ bits_intensity[p] = Count(2 ^ adc_resolution.bits - 1)

\* C3 (as claimed): the call returns normally and an output pixel is the
\* NaN sentinel exactly when the input pixel was NaN.
C3_MaskPreserved ==
    chipPc # "ready" =>
        /\ chipPc = "returned"
        /\ \A p \in Pixels :
             bits_intensity[p].k = "nan" <=> intensity_on_pixel[p].k = "nan"

\* C5 (as claimed): every valid pixel of the returned stack is a
\* non-negative integer count in 0 .. 2^adc_resolution - 1; stated here for
\* the calls with a finite SNR and the frames whose maximum is positive.
C5_NonNegative ==
    (chipPc = "returned" /\ signal_to_noise_ratio.k = "fin") =>
        \A p \in ValidPixels :
            FrameMaxPositive(p) =>
                /\ bits_intensity[p].k = "int"
                /\ 0 <= bits_intensity[p].v
                /\ bits_intensity[p].v <= 2 ^ adc_resolution.bits - 1

\* C5 (amended): every valid pixel of the returned stack is an integer
\* value <= 2^adc_resolution - 1 and there is no lower clamp; it is a count
\* in 0 .. 2^adc_resolution - 1 whenever its frame maximum is positive and
\* its noisy intensity is non-negative.
C5_Bounded ==
    chipPc = "returned" =>
        \A p \in ValidPixels :
            /\ CountLeq(bits_intensity[p], 2 ^ adc_resolution.bits - 1)
            /\ (FrameMaxPositive(p) /\ white_noise[p].k = "fin"
                                    /\ white_noise[p].m >= 0) =>
                   /\ bits_intensity[p].k = "int"
                   /\ bits_intensity[p].v >= 0

\* C5 witness: a returned frame holding a negative count (noise drove the
\* pixel below zero) beside a pixel clipped at the maximum.
C5_Witness ==
    /\ chipPc = "returned"
    /\ \E p, q \in ValidPixels :
         /\ p[1] = q[1]
         /\ bits_intensity[p].k = "int" /\ bits_intensity[p].v < 0
         /\ bits_intensity[q] = Count(2 ^ adc_resolution.bits - 1)

\* C7 (as claimed): with SNR infinite and saturation_ratio 1, in every
\* frame whose maximum is positive each pixel holding the maximum maps to
\* exactly 2^adc_resolution - 1 and each zero pixel maps to 0, frame by
\* frame.
C7_FullScale ==
    (/\ chipPc = "returned"
     /\ signal_to_noise_ratio = Inf(1)
     /\ pixel_saturation_ratio = Fin(1, 0)) =>
        \A p \in ValidPixels :
            FrameMaxPositive(p) =>
                /\ intensity_on_pixel[p] = FrameMax(p) =>
                       bits_intensity[p] = Count(2 ^ adc_resolution.bits - 1)
                /\ intensity_on_pixel[p] = Fin(0, 0) =>
                       bits_intensity[p] = Count(0)

(***************************************************************************)
(* Fixed-point angles.  Radians are held in units of 1e-5 rad, degrees in  *)
(* centidegrees.  arctan and arcsin are computed by CORDIC vectoring to    *)
(* that resolution; a cast of an angle to float32 (relative error 6e-8)    *)
(* is below the resolution and leaves the fixed-point value unchanged.     *)
(***************************************************************************)
HalfPi == 157080
RightAngle == 9000

\* atan(2^-i) for i = 0, 1, ... in units of 1e-5 rad.
CordicTable == << 78540, 46365, 24498, 12435, 6242, 3124, 1562, 781, 391,
                  195, 98, 49, 24, 12, 6, 3, 2, 1 >>

\* a / d truncated toward zero.
Shr(a, d) == Sgn(a) * (Abs(a) \div d)

RECURSIVE Vectoring(_, _, _, _)
Vectoring(x, y, i, acc) ==
    IF i > Len(CordicTable) \/ y = 0 THEN acc
    ELSE LET d == 2 ^ (i - 1)
         IN  IF y > 0
             THEN Vectoring(x + Shr(y, d), y - Shr(x, d), i + 1,
                            acc + CordicTable[i])
             ELSE Vectoring(x - Shr(y, d), y + Shr(x, d), i + 1,
                            acc - CordicTable[i])

\* The angle of the vector (x, y), x >= 0, y >= 0, in [0, pi/2].
AngleOf(x, y) ==
    IF y = 0 THEN 0
    ELSE IF x = 0 THEN HalfPi
    ELSE LET a == Vectoring(x * 4096, y * 4096, 1, 0)
         IN  IF a < 0 THEN 0 ELSE IF a > HalfPi THEN HalfPi ELSE a

RECURSIVE IsqrtIn(_, _, _)
IsqrtIn(n, lo, hi) ==
    IF lo = hi THEN lo
    ELSE LET mid == (lo + hi + 1) \div 2
         IN  IF mid * mid <= n THEN IsqrtIn(n, mid, hi)
             ELSE IsqrtIn(n, lo, mid - 1)

\* floor(sqrt(n))
Isqrt(n) == IsqrtIn(n, 0, 46340)

\* numpy.arctan(num / den), num >= 0, den > 0.
ArcTan(num, den) == AngleOf(den, num)

\* numpy.arcsin(num / den), num >= 0, den > 0: NaN outside [-1, 1].
ArcSin(num, den) ==
    IF num > den THEN [nan |-> TRUE, v |-> 0]
    ELSE [nan |-> FALSE, v |-> AngleOf(Isqrt(den * den - num * num), num)]

\* numpy.rad2deg
Rad2Deg(x) == (x * RightAngle) \div HalfPi

\* numpy.angle(z, deg=True) for z = re + i im: atan2 in (-180, 180].
AngleDeg(re, im) ==
    LET a == Rad2Deg(AngleOf(Abs(re), Abs(im)))
    IN  IF re >= 0 THEN (IF im >= 0 THEN a ELSE -a)
        ELSE (IF im >= 0 THEN 2 * RightAngle - a ELSE a - 2 * RightAngle)

(***************************************************************************)
(* OpticalConjugator                                                       *)
(***************************************************************************)
MaxDim == 4
Dims == 1 .. MaxDim
FocalLengths == {2, 4, 8}
PixelSizes == {1, 2}
BuiltInTypes == {"thin", "stereographic", "equi_angle", "equi_solid_angle",
                 "orthogonal"}
ConjugationTypes == BuiltInTypes \cup {"custom", "fisheye"}
ClipValues == {[given |-> FALSE, v |-> 0], [given |-> TRUE, v |-> 0],
               [given |-> TRUE, v |-> 6000]}
Hooks == {"None", "equidistant"}

Grid(h, w) == (1 .. h) \X (1 .. w)
NotANumber == [nan |-> TRUE, v |-> 0]
Num(v) == [nan |-> FALSE, v |-> v]

\* linspace((n - 1) / 2, -(n - 1) / 2, n)[i - 1], doubled: n - 1, n - 3, ...
Linspace(n, i) == n + 1 - 2 * i

\* __get_complex_sensor_plane: the doubled planar offset (in micrometers)
\* of pixel (i, j): real part from the column, imaginary from the row.
ComplexSensorPlane(h, w, size) ==
    [p \in Grid(h, w) |-> [re |-> size * Linspace(w, p[2]),
                           im |-> size * Linspace(h, p[1])]]

\* absolute(z), in units of 2^-11 micrometers.
Absolute(z) == Isqrt((z.re * z.re + z.im * z.im) * (2 ^ 20))

\* The focal length in the same units.
FocalFx(f) == f * (2 ^ 11)

\* The model-specific remapping of the radius r to a zenith angle (radians).
ZenithAngle(type, r, f) ==
    CASE type = "thin" -> Num(ArcTan(r, FocalFx(f)))
      [] type = "stereographic" -> Num(2 * ArcTan(r, 2 * FocalFx(f)))
      [] type = "equi_angle" -> Num((r * 3125) \div (f * 64))
      [] type = "equi_solid_angle" ->
            LET a == ArcSin(r, 2 * FocalFx(f))
            IN  IF a.nan THEN NotANumber ELSE Num(2 * a.v)
      [] type = "orthogonal" -> ArcSin(r, FocalFx(f))

ConjugateMutant(type, r, f) == ZenithAngle(type, r, f)

\* The match statement of __apply_conjugation for the built-in models:
\* half_pi minus the remapped radius, the altitude in radians.
Conjugate(type, r, f) ==
    LET z == ZenithAngle(type, r, f)
    IN  IF z.nan THEN NotANumber ELSE Num(HalfPi - z.v)

\* A caller's hook: the equidistant projection, altitude = pi/2 - r / f.
CallHook(hook, r, f) == Num(HalfPi - (r * 3125) \div (f * 64))

\* __apply_conjugation: the outcome and, when it returns, the field.
ApplyConjugation(type, plane, f, hook) ==
    IF type \in BuiltInTypes
    THEN [pc |-> "returned",
          field |-> [p \in DOMAIN plane |-> Conjugate(type, Absolute(plane[p]), f)]]
    ELSE IF type = "custom"
    THEN IF hook = "None"
         THEN [pc |-> "TypeError", field |-> << >>]
         ELSE [pc |-> "returned",
               field |-> [p \in DOMAIN plane |->
                            CallHook(hook, Absolute(plane[p]), f)]]
    ELSE [pc |-> "SystemExit", field |-> << >>]

\* altitude.clip(min=altitude_min_clip): NaN stays NaN.
Clip(a, floor) ==
    IF a.nan THEN a ELSE IF a.v < floor THEN Num(floor) ELSE a

LensInit ==
    /\ lens_conjugation_type \in ConjugationTypes
    /\ number_pixels_vertical \in Dims
    /\ number_pixels_horizontal \in Dims
    /\ lens_focal_length_micrometers \in FocalLengths
    /\ sensor_pixel_size_square_micrometers \in PixelSizes
    /\ altitude_min_clip \in ClipValues
    /\ custom_lens_conjugation \in Hooks
    /\ azimuth = << >>
    /\ altitude = << >>
    /\ lensPc = "ready"

LensIdle ==
    /\ lens_conjugation_type = "thin"
    /\ number_pixels_vertical = 1
    /\ number_pixels_horizontal = 1
    /\ lens_focal_length_micrometers = 1
    /\ sensor_pixel_size_square_micrometers = 1
    /\ altitude_min_clip = [given |-> FALSE, v |-> 0]
    /\ custom_lens_conjugation = "None"
    /\ azimuth = << >>
    /\ altitude = << >>
    /\ lensPc = "idle"

\* OpticalConjugator.get_azimuth_altitude
get_azimuth_altitude ==
    /\ lensPc = "ready"
    /\ LET h == number_pixels_vertical
           w == number_pixels_horizontal
           plane == ComplexSensorPlane(h, w, sensor_pixel_size_square_micrometers)
           az == [p \in Grid(h, w) |-> AngleDeg(plane[p].re, plane[p].im)]
           res == ApplyConjugation(lens_conjugation_type, plane,
                                   lens_focal_length_micrometers,
                                   custom_lens_conjugation)
       IN  /\ lensPc' = res.pc
           /\ IF res.pc = "returned"
              THEN /\ azimuth' = [p \in Grid(h, w) |-> az[<<p[1], w + 1 - p[2]>>]]
                   /\ altitude' =
                        [p \in Grid(h, w) |->
                           LET deg == IF res.field[p].nan THEN NotANumber
                                      ELSE Num(Rad2Deg(res.field[p].v))
                           IN  IF altitude_min_clip.given
                               THEN Clip(deg, altitude_min_clip.v)
                               ELSE deg]
              ELSE UNCHANGED << azimuth, altitude >>
    /\ UNCHANGED << lens_conjugation_type, number_pixels_vertical,
                    number_pixels_horizontal, lens_focal_length_micrometers,
                    sensor_pixel_size_square_micrometers, altitude_min_clip,
                    custom_lens_conjugation >>

(***************************************************************************)
(* OpticalConjugator: properties                                           *)
(***************************************************************************)
SupportedTypes == BuiltInTypes \cup {"custom"}

\* C1 (as claimed): with a conjugation tag outside the supported set the
\* call fails with the typed, catchable UnsupportedProjectionError and
\* never with a process exit.
C1_TypedError ==
    (lensPc # "ready" /\ lens_conjugation_type \notin SupportedTypes) =>
        lensPc = "UnsupportedProjectionError"

\* The call of C8: a built-in model, no altitude floor, returned.
BuiltInCall ==
    /\ lensPc = "returned"
    /\ lens_conjugation_type \in BuiltInTypes
    /\ ~altitude_min_clip.given

LensGrid == Grid(number_pixels_vertical, number_pixels_horizontal)

\* Four times the squared pixel distance of p from the grid centre.
CentreDistance(p) ==
    (2 * p[1] - (number_pixels_vertical + 1)) ^ 2
        + (2 * p[2] - (number_pixels_horizontal + 1)) ^ 2

\* The pixels nearest to the grid centre.
CentrePixels ==
    {p \in LensGrid : \A q \in LensGrid : CentreDistance(p) <= CentreDistance(q)}

\* Of two in-field-of-view pixels the farther never has the higher altitude.
RadiallyDecreasing ==
    \A p, q \in LensGrid :
        (/\ ~altitude[p].nan
         /\ ~altitude[q].nan
         /\ CentreDistance(p) < CentreDistance(q)) =>
            altitude[q].v <= altitude[p].v

\* C8 (as claimed): for every built-in model and every grid size, odd or
\* even, the altitude is 90 degrees at the grid centre and decreases
\* monotonically with the radial pixel distance.
C8_CentreIsZenith ==
    BuiltInCall =>
        /\ \A p \in CentrePixels : altitude[p] = Num(RightAngle)
        /\ RadiallyDecreasing

\* C8 (amended): the altitude decreases monotonically with the radial pixel
\* distance for every grid size; the centre pixel has altitude 90 degrees
\* when both dimensions are odd, and when a dimension is even no pixel lies
\* on the optical axis and every returned altitude is below 90 degrees.
C8_Monotone ==
    BuiltInCall =>
        /\ RadiallyDecreasing
        /\ (number_pixels_vertical % 2 = 1 /\ number_pixels_horizontal % 2 = 1) =>
               \A p \in CentrePixels : altitude[p] = Num(RightAngle)
        /\ (number_pixels_vertical % 2 = 0 \/ number_pixels_horizontal % 2 = 0) =>
               \A p \in LensGrid : altitude[p].nan \/ altitude[p].v < RightAngle

\* C8 witness: an even-sized grid whose in-field-of-view pixels lie at
\* two different radii, the nearer strictly higher, none at 90 degrees.
C8_Witness ==
    /\ BuiltInCall
    /\ number_pixels_horizontal % 2 = 0
    /\ \E p, q \in LensGrid :
         /\ ~altitude[p].nan /\ ~altitude[q].nan
         /\ CentreDistance(p) < CentreDistance(q)
         /\ altitude[q].v < altitude[p].v
         /\ altitude[p].v < RightAngle

(***************************************************************************)
(* Pan.simulate_sky.  Solar and sky altitudes are in centidegrees and the  *)
(* neutral-point separations in units of 1e-4 degree, so the regression    *)
(* coefficients 37.34, 0.49, 56.84, 0.25, 42.53, 0.56 are exact integers.  *)
(* The values of the omega-derived fields are not modelled: an entry of    *)
(* dop, aop or radiance is "value" as computed or "nan" once overwritten.  *)
(***************************************************************************)
Times == 1 .. 2
SkyGrid == (1 .. 1) \X (1 .. 2)
SkyPixels == Times \X SkyGrid
SunAltitudes == {-1000, 0, 2699, 2700, 2701, 4500}
SkyAltitudes == {-1000, 0, 1000, 9000}
FloorValues == {[given |-> FALSE, v |-> 0], [given |-> TRUE, v |-> 0],
                [given |-> TRUE, v |-> -1000], [given |-> TRUE, v |-> 1000]}

BrewsterThreshold == 2700

\* (37.34 * deg + 0.49 * sun_position.alt), in 1e-4 degree
BrewsterLow(a) == 373400 + 49 * a

\* (56.84 * deg - 0.25 * sun_position.alt), in 1e-4 degree
BrewsterHigh(a) == 568400 - 25 * a

BrewsterSeparationMutant(a) ==
    IF a < BrewsterThreshold THEN BrewsterLow(a) ELSE BrewsterHigh(a)

\* where(sun_position.alt.value <= 27, low, high), in 1e-4 degree
BrewsterSeparation(a) ==
    IF a <= BrewsterThreshold THEN BrewsterLow(a) ELSE BrewsterHigh(a)

\* (42.53 * deg - 0.56 * sun_position.alt), in 1e-4 degree
BabinetSeparation(a) == 425300 - 56 * a

\* Angle.radian: 1e-4 degree to 1e-5 rad (pi / 180 = 0.01745...)
Radian(d) == (d * 349) \div 2000

\* `if altitude_min_clip:` - the truth value of the argument: None and
\* zero are both false.
MaskGiven(clip) == clip.given /\ clip.v # 0

\* radiance[mask] = None (likewise dop, aop), mask = alt.deg <= clip
Masked(field, clip, alt) ==
    [p \in SkyPixels |->
        IF MaskGiven(clip) /\ alt[p[2]] <= clip.v THEN "nan" ELSE field[p]]

PanInit ==
    /\ sky_map_alt \in [SkyGrid -> SkyAltitudes]
    /\ sun_altitude \in [Times -> SunAltitudes]
    /\ sky_altitude_min_clip \in FloorValues
    /\ angle_between_sun_babinet = << >>
    /\ angle_between_sun_brewster = << >>
    /\ radiance = << >>
    /\ dop = << >>
    /\ aop = << >>
    /\ panPc = "ready"

PanIdle ==
    /\ sky_map_alt = << >>
    /\ sun_altitude = << >>
    /\ sky_altitude_min_clip = [given |-> FALSE, v |-> 0]
    /\ angle_between_sun_babinet = << >>
    /\ angle_between_sun_brewster = << >>
    /\ radiance = << >>
    /\ dop = << >>
    /\ aop = << >>
    /\ panPc = "idle"

simulate_sky ==
    /\ panPc = "ready"
    /\ angle_between_sun_babinet' =
          [t \in Times |-> Radian(BabinetSeparation(sun_altitude[t]))]
    /\ angle_between_sun_brewster' =
          [t \in Times |-> Radian(BrewsterSeparation(sun_altitude[t]))]
    /\ LET computed == [p \in SkyPixels |-> "value"]
       IN  /\ radiance' = Masked(computed, sky_altitude_min_clip, sky_map_alt)
           /\ dop' = Masked(computed, sky_altitude_min_clip, sky_map_alt)
           /\ aop' = Masked(computed, sky_altitude_min_clip, sky_map_alt)
    /\ panPc' = "returned"
    /\ UNCHANGED << sky_map_alt, sun_altitude, sky_altitude_min_clip >>

(***************************************************************************)
(* Pan: properties                                                         *)
(***************************************************************************)
\* C4 (as claimed): whenever a floor is passed, zero included, exactly the
\* pixels at or below it have radiance, DoP and AoP invalid; with no floor
\* nothing is masked.
C4_FloorMasks ==
    panPc = "returned" =>
        \A p \in SkyPixels :
            LET below == /\ sky_altitude_min_clip.given
                         /\ sky_map_alt[p[2]] <= sky_altitude_min_clip.v
            IN  /\ (radiance[p] = "nan") <=> below
                /\ (dop[p] = "nan") <=> below
                /\ (aop[p] = "nan") <=> below

\* C6 (as claimed): the two branch expressions of the Brewster separation
\* give the same value at a solar altitude of 27 degrees, so the separation
\* used has no jump at the switch.
C6_Continuous ==
    panPc = "returned" =>
        \A t \in Times :
            sun_altitude[t] = BrewsterThreshold =>
                /\ BrewsterLow(sun_altitude[t]) = BrewsterHigh(sun_altitude[t])
                /\ angle_between_sun_brewster[t]
                       = Radian(BrewsterHigh(sun_altitude[t]))

\* C6 (amended): the separation is 37.34 + 0.49 a up to and including
\* a = 27 and 56.84 - 0.25 a above; at a = 27 the branches give 50.57 and
\* 50.09 degrees, so the separation drops by 0.48 degrees across the switch.
C6_Jump ==
    panPc = "returned" =>
        \A t \in Times :
            /\ sun_altitude[t] <= 2700 =>
                   angle_between_sun_brewster[t]
                       = Radian(373400 + 49 * sun_altitude[t])
            /\ sun_altitude[t] > 2700 =>
                   angle_between_sun_brewster[t]
                       = Radian(568400 - 25 * sun_altitude[t])
            /\ sun_altitude[t] = 2700 =>
                   /\ angle_between_sun_brewster[t] = Radian(505700)
                   /\ BrewsterHigh(sun_altitude[t]) = 500900

\* C6 witness: one call with the sun at exactly 27 degrees in one frame and
\* just above in the other, the second separation the smaller.
C6_Witness ==
    /\ panPc = "returned"
    /\ \E t, u \in Times :
         /\ sun_altitude[t] = 2700
         /\ sun_altitude[u] = 2701
         /\ angle_between_sun_brewster[u] < angle_between_sun_brewster[t]

(***************************************************************************)
(* MicroPolarizer.get_intensity_on_pixel.  Rows and columns are 0-based,   *)
(* as the slices are.  Orientations are radians in units of 1e-5, DoP,     *)
(* radiance, extinction ratio and intensity are in thousandths.            *)
(***************************************************************************)
PolFrames == 1 .. 2
PolRows == 0 .. 1
PolCols == 0 .. 2
PolGrid == PolRows \X PolCols
PolPixels == PolFrames \X PolRows \X PolCols

MaxStep == 2
OrientationAngles == {0, 45, 90}
SlicingPatterns ==
    [start_row : 0 .. 1, start_column : 0 .. 1, step : 1 .. MaxStep]
Entries == [angle : OrientationAngles, pattern : SlicingPatterns]

\* The items() of a dict of at most two entries: the keys are distinct.
Slicings ==
    {<< >>} \cup {<<e>> : e \in Entries}
        \cup {s \in Entries \X Entries : s[1].angle # s[2].angle}

Tolerances == {0, 2000}
\* rand().astype(float32) lies in [0, 1] (a draw above 1 - 2^-25 rounds to
\* 1.0): the two ends of the range, in quarters.
UniformDraws == {0, 4}

\* numpy.deg2rad
Deg2Rad(d) == (d * HalfPi) \div 90

SelectsMutant(pattern, r, c) ==
    /\ r % pattern.step = 0
    /\ c % pattern.step = 0

\* Whether [start_row::step, start_column::step] holds the index (r, c).
Selects(pattern, r, c) ==
    /\ r >= pattern.start_row
    /\ c >= pattern.start_column
    /\ (r - pattern.start_row) % pattern.step = 0
    /\ (c - pattern.start_column) % pattern.step = 0

\* The loop of lines 39-45 after its first n iterations, from zeros_like.
RECURSIVE FillAngleMap(_, _)
FillAngleMap(items, n) ==
    IF n = 0 THEN [p \in PolPixels |-> 0]
    ELSE LET prev == FillAngleMap(items, n - 1)
             rad == Deg2Rad(items[n].angle)
         IN  [p \in PolPixels |->
                IF Selects(items[n].pattern, p[2], p[3]) THEN rad ELSE prev[p]]

\* tolerance * (1 - 2 * rand), rand in quarters
Defect(tol, u) == (tol * (4 - 2 * u)) \div 4

BroadcastMutant(d, p) == d[<<(p[2] + p[1]) % 2, p[3]>>]

\* defects[None, :, :] at the index p = (t, r, c)
Broadcast(d, p) == d[<<p[2], p[3]>>]

\* numpy.cos, in thousandths, of an angle in units of 1e-5 rad: the angle
\* is reduced to [0, pi/2] and a degree-6 Taylor polynomial evaluated.
CosQuadrant(x) ==
    LET y == x \div 100
        y2 == (y * y) \div 1000
        y4 == (y2 * y2) \div 1000
        y6 == (y4 * y2) \div 1000
    IN  1000 - y2 \div 2 + y4 \div 24 - y6 \div 720

Cos(x) ==
    LET a == Abs(x) % (4 * HalfPi)
        b == IF a > 2 * HalfPi THEN 4 * HalfPi - a ELSE a
    IN  IF b <= HalfPi THEN CosQuadrant(b) ELSE -CosQuadrant(2 * HalfPi - b)

\* 0.5 * radiance * (1 + (extinction_ratio * DoP) * cos(2 * (AoP - angle)))
IntensityOnPixel(rad, er, d, a, ang) ==
    (rad * (1000 + (((er * d) \div 1000) * Cos(2 * (a - ang))) \div 1000))
        \div 2000

PolInit ==
    /\ extinction_ratio \in {1000}
    /\ tolerance \in Tolerances
    /\ wire_grid_orientations_slicing \in Slicings
    /\ degree_of_polarization = [p \in PolPixels |-> 1000]
    /\ \E a \in {0, 78540} : angle_of_polarization = [p \in PolPixels |-> a]
    /\ pol_radiance = [p \in PolPixels |-> 2000]
    /\ mosaic = << >>
    /\ defects = << >>
    /\ angle_map = << >>
    /\ pol_intensity = << >>
    /\ polPc = "ready"

PolIdle ==
    /\ extinction_ratio = 1000
    /\ tolerance = 0
    /\ wire_grid_orientations_slicing = << >>
    /\ degree_of_polarization = << >>
    /\ angle_of_polarization = << >>
    /\ pol_radiance = << >>
    /\ mosaic = << >>
    /\ defects = << >>
    /\ angle_map = << >>
    /\ pol_intensity = << >>
    /\ polPc = "idle"

get_intensity_on_pixel ==
    /\ polPc = "ready"
    /\ \E rand \in [PolGrid -> UniformDraws] :
         LET filled == FillAngleMap(wire_grid_orientations_slicing,
                                    Len(wire_grid_orientations_slicing))
             drawn == [g \in PolGrid |-> Defect(tolerance, rand[g])]
             final == [p \in PolPixels |-> filled[p] + Broadcast(drawn, p)]
         IN  /\ mosaic' = filled
             /\ defects' = drawn
             /\ angle_map' = final
             /\ pol_intensity' =
                  [p \in PolPixels |->
                     IntensityOnPixel(pol_radiance[p], extinction_ratio,
                                      degree_of_polarization[p],
                                      angle_of_polarization[p], final[p])]
    /\ polPc' = "returned"
    /\ UNCHANGED << extinction_ratio, tolerance, wire_grid_orientations_slicing,
                    degree_of_polarization, angle_of_polarization,
                    pol_radiance >>

(***************************************************************************)
(* MicroPolarizer: properties                                              *)
(***************************************************************************)
Items == wire_grid_orientations_slicing

\* The positions, in insertion order, of the entries whose pattern (by the
\* claim's own wording) selects (r, c).
SelectingEntries(r, c) ==
    {i \in 1 .. Len(Items) :
        /\ r >= Items[i].pattern.start_row
        /\ c >= Items[i].pattern.start_column
        /\ (r - Items[i].pattern.start_row) % Items[i].pattern.step = 0
        /\ (c - Items[i].pattern.start_column) % Items[i].pattern.step = 0}

LastOf(S) == CHOOSE i \in S : \A j \in S : j <= i

\* C9: the pre-defect orientation of pixel (row, col) is the orientation,
\* in radians, of the last entry in insertion order whose pattern selects
\* it, and 0 when none does; it is the same in every time frame.
C9_LastEntryWins ==
    polPc = "returned" =>
        \A p \in PolPixels :
            LET S == SelectingEntries(p[2], p[3])
            IN  /\ S = {} => mosaic[p] = 0
                /\ S # {} => mosaic[p] = (Items[LastOf(S)].angle * HalfPi) \div 90
                /\ \A t \in PolFrames : mosaic[<<t, p[2], p[3]>>] = mosaic[p]

\* C9 witness: a pixel selected by both entries of a two-entry mapping with
\* different orientations, holding the second one, beside an unselected one.
C9_Witness ==
    /\ polPc = "returned"
    /\ Len(Items) = 2
    /\ \E p, q \in PolPixels :
         /\ SelectingEntries(p[2], p[3]) = {1, 2}
         /\ mosaic[p] = Deg2Rad(Items[2].angle)
         /\ mosaic[p] # Deg2Rad(Items[1].angle)
         /\ SelectingEntries(q[2], q[3]) = {}

\* C10: one defect value per pixel (row, col), within [-tolerance,
\* +tolerance], is added to that pixel's orientation in every time frame,
\* so the perturbed map is the same in all frames of the call; with
\* tolerance 0 it equals the unperturbed mosaic.
C10_DefectPerPixel ==
    polPc = "returned" =>
        /\ DOMAIN defects = PolGrid
        /\ \A g \in PolGrid : -tolerance <= defects[g] /\ defects[g] <= tolerance
        /\ \A p \in PolPixels :
             /\ angle_map[p] = mosaic[p] + defects[<<p[2], p[3]>>]
             /\ \A t \in PolFrames : angle_map[<<t, p[2], p[3]>>] = angle_map[p]
        /\ tolerance = 0 => angle_map = mosaic

\* C10 witness: a call with a positive tolerance in which two pixels drew
\* different defects and every frame carries them.
C10_Witness ==
    /\ polPc = "returned"
    /\ tolerance > 0
    /\ \E g, h \in PolGrid :
         /\ defects[g] = tolerance
         /\ defects[h] < 0
         /\ \A t \in PolFrames :
              angle_map[<<t, g[1], g[2]>>] = mosaic[<<t, g[1], g[2]>>] + tolerance

(***************************************************************************)
(* Specifications, one per component                                       *)
(***************************************************************************)
ChipNext == get_bits_intensity /\ UNCHANGED << lensVars, panVars, polVars >>
ChipStart == ChipInit /\ LensIdle /\ PanIdle /\ PolIdle
SpecChip == ChipStart /\ [][ChipNext]_vars

LensNext == get_azimuth_altitude /\ UNCHANGED << chipVars, panVars, polVars >>
LensStart == LensInit /\ ChipIdle /\ PanIdle /\ PolIdle
SpecLens == LensStart /\ [][LensNext]_vars

PanNext == simulate_sky /\ UNCHANGED << chipVars, lensVars, polVars >>
PanStart == PanInit /\ ChipIdle /\ LensIdle /\ PolIdle
SpecPan == PanStart /\ [][PanNext]_vars

PolNext == get_intensity_on_pixel /\ UNCHANGED << chipVars, lensVars, panVars >>
PolStart == PolInit /\ ChipIdle /\ LensIdle /\ PanIdle
SpecPol == PolStart /\ [][PolNext]_vars

====
